---- MODULE Spec2Model ----
(***************************************************************************)
(* A model of src/shared/Network: Socket (the Connection), NetworkThread   *)
(* (the Worker: live list, closing list, reactor thread, cleanup thread)   *)
(* and Listener (the Acceptor and its worker selection).                   *)
(*                                                                         *)
(* Spec       one NetworkThread, the SpecConns sockets it is given, and    *)
(*            every thread that touches them: application threads, the     *)
(*            reactor (service)                                            *)
(*            thread, the cleanup (reaper) thread, the acceptor thread and *)
(*            the thread that runs ~NetworkThread.  Every statement that   *)
(*            takes a lock or reads/writes shared state is one step.       *)
(* FairSpec   Spec with weak fairness of the cleanup thread and of every   *)
(*            thread that is inside a Socket member function.              *)
(* SpecAccept the Listener's acceptor over NumWorkers workers: the         *)
(*            SelectWorker loop, one Size() read per step, and             *)
(*            CreateSocket, interleaved with closes on other threads.      *)
(*                                                                         *)
(* libevent is outside the repository.  What the model takes from it:      *)
(* a bufferevent made with BEV_OPT_THREADSAFE has a recursive lock; the    *)
(* reactor holds that lock while it runs a read or event callback; a       *)
(* callback is run only if it is still set and enabled when the reactor    *)
(* has the lock.                                                           *)
(*                                                                         *)
(* Undefined behaviour is a choice: either the process aborts (crashed,    *)
(* after which no thread takes a step) or the step goes on with the        *)
(* memory as it was left.                                                  *)
(***************************************************************************)
EXTENDS Integers, Sequences, FiniteSets, TLC

\* ---------------------------------------------------------------- bounds
MaxConns ==
    2
SpecConns ==
    1
NumApps ==
    1
MaxBuf ==
    1
NumWorkers ==
    4
MaxAccepts ==
    8
MaxRead ==
    3

Conns == 1..MaxConns
Bytes == {"a"}

\* ---------------------------------------------------------------- threads
Apps == {<<"app", i>> : i \in 1..NumApps}
Reactor == <<"reactor", 0>>
Reaper == <<"reaper", 0>>
Dtor == <<"dtor", 0>>
Acceptor == <<"acceptor", 0>>
NoThread == <<"none", 0>>
Threads == Apps \cup {Reactor, Reaper, Dtor, Acceptor}

VARIABLES
    \* Socket, one entry per connection
    m_bev,               \* "none" (not constructed), "valid", "null"
    cbSet,               \* callbacks set and EV_READ|EV_WRITE enabled on the stream
    streamFreed,         \* number of bufferevent_free calls on the stream
    closeNotified,       \* number of m_closeHandler invocations
    closeReturned,       \* some Close() call on the socket has returned
    readLock, writeLock, \* m_readLock, m_writeLock: the owner, or NoThread
    bevOwner, bevCount,  \* the stream's recursive lock
    inbuf, outbuf,       \* the stream's input and output evbuffers
    created, destroyed,  \* sockets constructed; sockets whose destructor has run
    \* NetworkThread
    m_sockets, m_closingSockets,
    m_socketLock, m_closingSocketLock,
    m_pendingShutdown, loopBroken, baseFreed,
    \* threads
    pc, ret, cur, op, arg, res,
    rIdx,                \* the cleanup thread's iterator into m_closingSockets
    rPass,               \* m_closingSockets as it was when the current pass locked it
    events,              \* the event bits of the event callback being run
    assertFailed,        \* an assert(sock->m_bev == bev) has failed
    crashed,             \* the process has aborted
    \* Listener (SpecAccept)
    workerSockets,       \* m_workerThreads[i]->m_sockets, i in 1..NumWorkers
    selPc, selI, minIndex, minSize,
    sizesRead,           \* the Size() values the current SelectWorker call has read
    lastSelect,          \* <<sizes read, index returned>> of the last SelectWorker call
    accepted, closes,    \* connections accepted; sockets closed since start
    listener             \* the Listener under construction: the constructor's position,
                         \* its arguments, the members set and the threads started so far

sockVars == <<m_bev, cbSet, streamFreed, closeNotified, closeReturned, readLock,
              writeLock, bevOwner, bevCount, inbuf, outbuf, created, destroyed>>
workerVars == <<m_sockets, m_closingSockets, m_socketLock, m_closingSocketLock,
                m_pendingShutdown, loopBroken, baseFreed>>
threadVars == <<pc, ret, cur, op, arg, res, rIdx, rPass, events, assertFailed, crashed>>
selectVars == <<workerSockets, selPc, selI, minIndex, minSize, sizesRead, lastSelect,
                accepted, closes>>
acceptVars == <<selectVars, listener>>
vars == <<sockVars, workerVars, threadVars, acceptVars>>

\* ---------------------------------------------------------------- helpers
PushFront(list, x) ==
    <<x>> \o list

Without(list, x) ==
    SelectSeq(list, LAMBDA y : y # x)

InList(list, x) ==
    \E i \in 1..Len(list) : list[i] = x

Drop(s, n) ==
    IF n >= Len(s) THEN <<>> ELSE SubSeq(s, n + 1, Len(s))

Take(s, n) ==
    IF n >= Len(s) THEN s ELSE SubSeq(s, 1, n)

NoResult == [b |-> FALSE, n |-> 0, d |-> <<>>]

Goto(t, l) ==
    pc' = [pc EXCEPT ![t] = l]

Return(t) ==
    pc' = [pc EXCEPT ![t] = ret[t]]

\* A thread's locals once the call it made is over (nothing reads them again).
Forget(t) ==
    /\ ret' = [ret EXCEPT ![t] = "idle"]
    /\ cur' = [cur EXCEPT ![t] = 1]
    /\ op' = [op EXCEPT ![t] = "none"]
    /\ arg' = [arg EXCEPT ![t] = 1]
    /\ res' = [res EXCEPT ![t] = NoResult]

Call(t, c, entry, back) ==
    /\ pc' = [pc EXCEPT ![t] = entry]
    /\ ret' = [ret EXCEPT ![t] = back]
    /\ cur' = [cur EXCEPT ![t] = c]

\* ---------------------------------------------------------------- Init
\* Listener.hpp:100-136: the Listener as its constructor leaves it when every
\* step succeeded: NumWorkers NetworkThreads, each with its cleanup thread and
\* its service thread running, the base, the listener, the acceptor thread.
ListenerBuilt ==
    [pc |-> "done", workerThreads |-> NumWorkers, bindOk |-> TRUE, stage |-> "none",
     m_workerThreads |-> NumWorkers, cleanupThreads |-> NumWorkers,
     serviceThreads |-> NumWorkers, m_acceptorThread |-> TRUE,
     m_base |-> "valid", m_listener |-> TRUE, thrown |-> "none"]

\* Socket.cpp, NetworkThread.hpp: a worker with no socket yet, nothing locked,
\* every thread at rest.
InitWorker ==
    /\ m_bev = [c \in Conns |-> "none"]
    /\ cbSet = [c \in Conns |-> FALSE]
    /\ streamFreed = [c \in Conns |-> 0]
    /\ closeNotified = [c \in Conns |-> 0]
    /\ closeReturned = [c \in Conns |-> FALSE]
    /\ readLock = [c \in Conns |-> NoThread]
    /\ writeLock = [c \in Conns |-> NoThread]
    /\ bevOwner = [c \in Conns |-> NoThread]
    /\ bevCount = [c \in Conns |-> 0]
    /\ inbuf = [c \in Conns |-> <<>>]
    /\ outbuf = [c \in Conns |-> <<>>]
    /\ created = {}
    /\ destroyed = {}
    /\ m_sockets = <<>>
    /\ m_closingSockets = <<>>
    /\ m_socketLock = NoThread
    /\ m_closingSocketLock = NoThread
    /\ m_pendingShutdown = FALSE
    /\ loopBroken = FALSE
    /\ baseFreed = FALSE
    /\ pc = [t \in Threads |->
               IF t = Reaper THEN "RCond" ELSE IF t = Dtor THEN "DIdle" ELSE "idle"]
    /\ ret = [t \in Threads |-> "idle"]
    /\ cur = [t \in Threads |-> 1]
    /\ op = [t \in Threads |-> "none"]
    /\ arg = [t \in Threads |-> 1]
    /\ res = [t \in Threads |-> NoResult]
    /\ rIdx = 1
    /\ rPass = <<>>
    /\ events = "none"
    /\ assertFailed = FALSE
    /\ crashed = FALSE
    /\ workerSockets = [w \in 1..NumWorkers |-> <<>>]
    /\ selPc = "idle"
    /\ selI = 1
    /\ minIndex = 1
    /\ minSize = 0
    /\ sizesRead = <<>>
    /\ lastSelect = <<<<>>, 0>>
    /\ accepted = 0
    /\ closes = 0

\* The Listener is built and its worker has no socket yet.
Init ==
    /\ InitWorker
    /\ listener = ListenerBuilt

\* ---------------------------------------------------------------- Socket::Close
\* Socket.cpp:53  if (m_bev == nullptr) return;
CloseFast(t) ==
    /\ ~crashed
    /\ pc[t] = "Close"
    /\ IF m_bev[cur[t]] = "valid"
         THEN /\ Goto(t, "CloseRL")
              /\ UNCHANGED closeReturned
         ELSE /\ Return(t)
              /\ closeReturned' = [closeReturned EXCEPT ![cur[t]] = TRUE]
    /\ UNCHANGED <<m_bev, cbSet, streamFreed, closeNotified, readLock, writeLock,
                   bevOwner, bevCount, inbuf, outbuf, created, destroyed>>
    /\ UNCHANGED <<workerVars, acceptVars>>
    /\ UNCHANGED <<ret, cur, op, arg, res, rIdx, rPass, events, assertFailed, crashed>>

\* Socket.cpp:55  std::lock_guard<std::mutex> readGuard(m_readLock);
CloseReadLock(t) ==
    /\ ~crashed
    /\ pc[t] = "CloseRL"
    /\ readLock[cur[t]] = NoThread
    /\ readLock' = [readLock EXCEPT ![cur[t]] = t]
    /\ Goto(t, "CloseWL")
    /\ UNCHANGED <<m_bev, cbSet, streamFreed, closeNotified, closeReturned, writeLock,
                   bevOwner, bevCount, inbuf, outbuf, created, destroyed>>
    /\ UNCHANGED <<workerVars, acceptVars>>
    /\ UNCHANGED <<ret, cur, op, arg, res, rIdx, rPass, events, assertFailed, crashed>>

\* A Close that goes on to its second check without taking m_writeLock.
CloseNoWriteLock(t) ==
    /\ ~crashed
    /\ pc[t] = "CloseWL"
    /\ Goto(t, "CloseChk")
    /\ UNCHANGED <<sockVars, workerVars, acceptVars>>
    /\ UNCHANGED <<ret, cur, op, arg, res, rIdx, rPass, events, assertFailed, crashed>>

\* Socket.cpp:56  std::lock_guard<std::mutex> writeGuard(m_writeLock);
CloseWriteLock(t) ==
    /\ ~crashed
    /\ pc[t] = "CloseWL"
    /\ writeLock[cur[t]] = NoThread
    /\ writeLock' = [writeLock EXCEPT ![cur[t]] = t]
    /\ Goto(t, "CloseChk")
    /\ UNCHANGED <<m_bev, cbSet, streamFreed, closeNotified, closeReturned, readLock,
                   bevOwner, bevCount, inbuf, outbuf, created, destroyed>>
    /\ UNCHANGED <<workerVars, acceptVars>>
    /\ UNCHANGED <<ret, cur, op, arg, res, rIdx, rPass, events, assertFailed, crashed>>

\* Socket.cpp:59  if (m_bev == nullptr) return;   (both guards are released)
CloseRecheck(t) ==
    /\ ~crashed
    /\ pc[t] = "CloseChk"
    /\ IF m_bev[cur[t]] = "valid"
         THEN /\ Goto(t, "CloseBevLock")
              /\ UNCHANGED <<readLock, writeLock, closeReturned>>
         ELSE /\ Return(t)
              /\ readLock' = [readLock EXCEPT ![cur[t]] = NoThread]
              /\ writeLock' = [writeLock EXCEPT ![cur[t]] = NoThread]
              /\ closeReturned' = [closeReturned EXCEPT ![cur[t]] = TRUE]
    /\ UNCHANGED <<m_bev, cbSet, streamFreed, closeNotified,
                   bevOwner, bevCount, inbuf, outbuf, created, destroyed>>
    /\ UNCHANGED <<workerVars, acceptVars>>
    /\ UNCHANGED <<ret, cur, op, arg, res, rIdx, rPass, events, assertFailed, crashed>>

\* A Close that goes on to null m_bev without taking the stream's lock.
CloseNoBevLock(t) ==
    /\ ~crashed
    /\ pc[t] = "CloseBevLock"
    /\ Goto(t, "ClosePublish")
    /\ UNCHANGED <<sockVars, workerVars, acceptVars>>
    /\ UNCHANGED <<ret, cur, op, arg, res, rIdx, rPass, events, assertFailed, crashed>>

\* Socket.cpp:63  bufferevent_lock(m_bev);   (recursive: the owner may re-enter)
CloseBevLock(t) ==
    /\ ~crashed
    /\ pc[t] = "CloseBevLock"
    /\ bevOwner[cur[t]] \in {NoThread, t}
    /\ bevOwner' = [bevOwner EXCEPT ![cur[t]] = t]
    /\ bevCount' = [bevCount EXCEPT ![cur[t]] = @ + 1]
    /\ Goto(t, "ClosePublish")
    /\ UNCHANGED <<m_bev, cbSet, streamFreed, closeNotified, closeReturned, readLock,
                   writeLock, inbuf, outbuf, created, destroyed>>
    /\ UNCHANGED <<workerVars, acceptVars>>
    /\ UNCHANGED <<ret, cur, op, arg, res, rIdx, rPass, events, assertFailed, crashed>>

\* Socket.cpp:64-68  bufferevent_disable; bufferevent_setcb(NULL...);
\*                   l_bev = m_bev; m_bev = nullptr;   (all under the stream lock)
ClosePublish(t) ==
    /\ ~crashed
    /\ pc[t] = "ClosePublish"
    /\ cbSet' = [cbSet EXCEPT ![cur[t]] = FALSE]
    /\ m_bev' = [m_bev EXCEPT ![cur[t]] = "null"]
    /\ Goto(t, "CloseUnlock")
    /\ UNCHANGED <<streamFreed, closeNotified, closeReturned, readLock, writeLock,
                   bevOwner, bevCount, inbuf, outbuf, created, destroyed>>
    /\ UNCHANGED <<workerVars, acceptVars>>
    /\ UNCHANGED <<ret, cur, op, arg, res, rIdx, rPass, events, assertFailed, crashed>>

\* Socket.cpp:69  bufferevent_unlock(m_bev);   the argument is the field, not l_bev.
\* With the field still valid the stream's lock is released once.  With the field
\* null the call dereferences a null pointer: the lock of the stream is not
\* released, and the call either returns or aborts the process.
CloseBevUnlock(t) ==
    /\ ~crashed
    /\ pc[t] = "CloseUnlock"
    /\ IF m_bev[cur[t]] = "valid"
         THEN /\ bevCount' = [bevCount EXCEPT ![cur[t]] = @ - 1]
              /\ bevOwner' = [bevOwner EXCEPT ![cur[t]] =
                                 IF bevCount[cur[t]] = 1 THEN NoThread ELSE @]
              /\ Goto(t, "CloseFree")
              /\ UNCHANGED crashed
         ELSE /\ UNCHANGED <<bevCount, bevOwner>>
              /\ \/ Goto(t, "CloseFree") /\ UNCHANGED crashed
                 \/ crashed' = TRUE /\ UNCHANGED pc
    /\ UNCHANGED <<m_bev, cbSet, streamFreed, closeNotified, closeReturned, readLock,
                   writeLock, inbuf, outbuf, created, destroyed>>
    /\ UNCHANGED <<workerVars, acceptVars>>
    /\ UNCHANGED <<ret, cur, op, arg, res, rIdx, rPass, events, assertFailed>>

\* Socket.cpp:71  bufferevent_free(l_bev);
CloseFree(t) ==
    /\ ~crashed
    /\ pc[t] = "CloseFree"
    /\ streamFreed' = [streamFreed EXCEPT ![cur[t]] = @ + 1]
    /\ Goto(t, "CloseNotify")
    /\ UNCHANGED <<m_bev, cbSet, closeNotified, closeReturned, readLock, writeLock,
                   bevOwner, bevCount, inbuf, outbuf, created, destroyed>>
    /\ UNCHANGED <<workerVars, acceptVars>>
    /\ UNCHANGED <<ret, cur, op, arg, res, rIdx, rPass, events, assertFailed, crashed>>

\* Socket.cpp:73-74  if (m_closeHandler) m_closeHandler(this);
\* The handler is the lambda of NetworkThread.hpp:147, which calls RemoveSocket.
CloseNotify(t) ==
    /\ ~crashed
    /\ pc[t] = "CloseNotify"
    /\ closeNotified' = [closeNotified EXCEPT ![cur[t]] = @ + 1]
    /\ Goto(t, "RmLive")
    /\ UNCHANGED <<m_bev, cbSet, streamFreed, closeReturned, readLock, writeLock,
                   bevOwner, bevCount, inbuf, outbuf, created, destroyed>>
    /\ UNCHANGED <<workerVars, acceptVars>>
    /\ UNCHANGED <<ret, cur, op, arg, res, rIdx, rPass, events, assertFailed, crashed>>

\* Socket.cpp:75  the two lock_guards go out of scope: write lock, then read lock.
CloseReturn(t) ==
    /\ ~crashed
    /\ pc[t] = "CloseRet"
    /\ writeLock' = [writeLock EXCEPT ![cur[t]] = NoThread]
    /\ readLock' = [readLock EXCEPT ![cur[t]] = NoThread]
    /\ closeReturned' = [closeReturned EXCEPT ![cur[t]] = TRUE]
    /\ Return(t)
    /\ UNCHANGED <<m_bev, cbSet, streamFreed, closeNotified,
                   bevOwner, bevCount, inbuf, outbuf, created, destroyed>>
    /\ UNCHANGED <<workerVars, acceptVars>>
    /\ UNCHANGED <<ret, cur, op, arg, res, rIdx, rPass, events, assertFailed, crashed>>

\* ---------------------------------------------------------------- NetworkThread::RemoveSocket
\* NetworkThread.hpp:105  std::lock_guard<std::mutex> guard(m_socketLock);
RemoveSocketLock(t) ==
    /\ ~crashed
    /\ pc[t] = "RmLive"
    /\ m_socketLock = NoThread
    /\ m_socketLock' = t
    /\ Goto(t, "RmClosing")
    /\ UNCHANGED <<m_sockets, m_closingSockets, m_closingSocketLock,
                   m_pendingShutdown, loopBroken, baseFreed>>
    /\ UNCHANGED <<sockVars, acceptVars>>
    /\ UNCHANGED <<ret, cur, op, arg, res, rIdx, rPass, events, assertFailed, crashed>>

\* NetworkThread.hpp:106  std::lock_guard<std::mutex> closingGuard(m_closingSocketLock);
RemoveSocketClosingLock(t) ==
    /\ ~crashed
    /\ pc[t] = "RmClosing"
    /\ m_closingSocketLock = NoThread
    /\ m_closingSocketLock' = t
    /\ Goto(t, "RmMove")
    /\ UNCHANGED <<m_sockets, m_closingSockets, m_socketLock,
                   m_pendingShutdown, loopBroken, baseFreed>>
    /\ UNCHANGED <<sockVars, acceptVars>>
    /\ UNCHANGED <<ret, cur, op, arg, res, rIdx, rPass, events, assertFailed, crashed>>

\* A RemoveSocket that moves the socket to the closing list and forgets the erase.
RemoveSocketNoErase(t) ==
    /\ ~crashed
    /\ pc[t] = "RmMove"
    /\ IF InList(m_sockets, cur[t])
         THEN m_closingSockets' = PushFront(m_closingSockets, cur[t])
         ELSE UNCHANGED m_closingSockets
    /\ m_socketLock' = NoThread
    /\ m_closingSocketLock' = NoThread
    /\ Goto(t, "CloseRet")
    /\ UNCHANGED <<m_sockets, m_pendingShutdown, loopBroken, baseFreed>>
    /\ UNCHANGED <<sockVars, acceptVars>>
    /\ UNCHANGED <<ret, cur, op, arg, res, rIdx, rPass, events, assertFailed, crashed>>

\* NetworkThread.hpp:108-115  find the entry that owns the socket, push it to the
\* front of m_closingSockets, erase it from m_sockets; both guards are released.
RemoveSocketMove(t) ==
    /\ ~crashed
    /\ pc[t] = "RmMove"
    /\ IF InList(m_sockets, cur[t])
         THEN /\ m_closingSockets' = PushFront(m_closingSockets, cur[t])
              /\ m_sockets' = Without(m_sockets, cur[t])
         ELSE UNCHANGED <<m_sockets, m_closingSockets>>
    /\ m_socketLock' = NoThread
    /\ m_closingSocketLock' = NoThread
    /\ Goto(t, "CloseRet")
    /\ UNCHANGED <<m_pendingShutdown, loopBroken, baseFreed>>
    /\ UNCHANGED <<sockVars, acceptVars>>
    /\ UNCHANGED <<ret, cur, op, arg, res, rIdx, rPass, events, assertFailed, crashed>>

\* ---------------------------------------------------------------- Socket accessors
\* Read, Write, ReadLengthRemaining, ReadSkip, InPeek and IsClosed share one
\* shape: an unlocked check of m_bev, a lock_guard, a second check, the body.
Ops == {"Read", "Write", "ReadLengthRemaining", "ReadSkip", "InPeek", "IsClosed"}

\* What an accessor returns when it finds m_bev null: Read false, InPeek nullptr,
\* ReadLengthRemaining 0, IsClosed true; Write and ReadSkip return nothing.
Detached(o) ==
    IF o = "IsClosed" THEN [b |-> TRUE, n |-> 0, d |-> <<>>] ELSE NoResult

\* The bytes Write is given: a frame of n bytes, "a" first and "b" after it.
Frame(n) ==
    [i \in 1..n |-> IF i = 1 THEN "a" ELSE "b"]

\* Socket.cpp:80,134,155,168,183,197  if (m_bev == nullptr) return <detached>;
OpFast(t) ==
    /\ ~crashed
    /\ pc[t] = "OpFast"
    /\ IF m_bev[cur[t]] = "valid"
         THEN /\ Goto(t, "OpLock")
              /\ UNCHANGED res
         ELSE /\ Return(t)
              /\ res' = [res EXCEPT ![t] = Detached(op[t])]
    /\ UNCHANGED <<sockVars, workerVars, acceptVars>>
    /\ UNCHANGED <<ret, cur, op, arg, rIdx, rPass, events, assertFailed, crashed>>

\* Socket.cpp:82,136,170,185,199 take m_readLock; Write (157) takes m_writeLock.
OpLock(t) ==
    /\ ~crashed
    /\ pc[t] = "OpLock"
    /\ IF op[t] = "Write"
         THEN /\ writeLock[cur[t]] = NoThread
              /\ writeLock' = [writeLock EXCEPT ![cur[t]] = t]
              /\ UNCHANGED readLock
         ELSE /\ readLock[cur[t]] = NoThread
              /\ readLock' = [readLock EXCEPT ![cur[t]] = t]
              /\ UNCHANGED writeLock
    /\ Goto(t, "OpBody")
    /\ UNCHANGED <<m_bev, cbSet, streamFreed, closeNotified, closeReturned,
                   bevOwner, bevCount, inbuf, outbuf, created, destroyed>>
    /\ UNCHANGED <<workerVars, acceptVars>>
    /\ UNCHANGED <<ret, cur, op, arg, res, rIdx, rPass, events, assertFailed, crashed>>

\* IsClosed with its last line returning true whatever m_bev holds.
IsClosedAlwaysTrue(c) ==
    [b |-> TRUE, n |-> 0, d |-> <<>>]

\* Socket.cpp:84  return (m_bev == nullptr);
IsClosedResult(c) ==
    [b |-> m_bev[c] = "null", n |-> 0, d |-> <<>>]

\* The body with Read's length test off by one: it also refuses a buffer that
\* holds exactly n bytes.
OpResultOffByOne(o, c, n) ==
    CASE o = "Read" ->
           IF Len(inbuf[c]) <= n THEN NoResult
           ELSE [b |-> TRUE, n |-> n, d |-> Take(inbuf[c], n)]
      [] o = "ReadLengthRemaining" -> [b |-> FALSE, n |-> Len(inbuf[c]), d |-> <<>>]
      [] o = "InPeek" ->
           IF Len(inbuf[c]) < 1 THEN NoResult
           ELSE [b |-> TRUE, n |-> 0, d |-> <<Head(inbuf[c])>>]
      [] o = "IsClosed" -> IsClosedResult(c)
      [] OTHER -> NoResult

\* Socket.cpp:141-149 Read, 162 Write, 175-177 ReadLengthRemaining,
\* 190-191 ReadSkip, 204-212 InPeek: the body, run with m_bev valid.
OpResult(o, c, n) ==
    CASE o = "Read" ->
           IF Len(inbuf[c]) < n THEN NoResult
           ELSE [b |-> TRUE, n |-> n, d |-> Take(inbuf[c], n)]
      [] o = "ReadLengthRemaining" -> [b |-> FALSE, n |-> Len(inbuf[c]), d |-> <<>>]
      [] o = "InPeek" ->
           IF Len(inbuf[c]) < 1 THEN NoResult
           ELSE [b |-> TRUE, n |-> 0, d |-> <<Head(inbuf[c])>>]
      [] o = "IsClosed" -> IsClosedResult(c)
      [] OTHER -> NoResult

OpInbuf(o, c, n) ==
    CASE o = "Read" -> IF Len(inbuf[c]) < n THEN inbuf[c] ELSE Drop(inbuf[c], n)
      [] o = "ReadSkip" -> Drop(inbuf[c], n)
      [] OTHER -> inbuf[c]

OpOutbuf(o, c, n) ==
    IF o = "Write" THEN outbuf[c] \o Frame(n) ELSE outbuf[c]

\* Socket.cpp:139,160,173,188,202 the check under the lock, then the body; the
\* lock_guard is released on every return.  IsClosed has no second early return:
\* its body is the comparison itself.
OpBody(t) ==
    /\ ~crashed
    /\ pc[t] = "OpBody"
    /\ IF m_bev[cur[t]] = "valid"
         THEN /\ res' = [res EXCEPT ![t] = OpResult(op[t], cur[t], arg[t])]
              /\ inbuf' = [inbuf EXCEPT ![cur[t]] = OpInbuf(op[t], cur[t], arg[t])]
              /\ outbuf' = [outbuf EXCEPT ![cur[t]] = OpOutbuf(op[t], cur[t], arg[t])]
         ELSE /\ res' = [res EXCEPT ![t] =
                            IF op[t] = "IsClosed" THEN IsClosedResult(cur[t])
                            ELSE Detached(op[t])]
              /\ UNCHANGED <<inbuf, outbuf>>
    /\ IF op[t] = "Write"
         THEN writeLock' = [writeLock EXCEPT ![cur[t]] = NoThread] /\ UNCHANGED readLock
         ELSE readLock' = [readLock EXCEPT ![cur[t]] = NoThread] /\ UNCHANGED writeLock
    /\ Return(t)
    /\ UNCHANGED <<m_bev, cbSet, streamFreed, closeNotified, closeReturned,
                   bevOwner, bevCount, created, destroyed>>
    /\ UNCHANGED <<workerVars, acceptVars>>
    /\ UNCHANGED <<ret, cur, op, arg, rIdx, rPass, events, assertFailed, crashed>>

\* ---------------------------------------------------------------- application threads
\* An application thread holds Socket pointers and calls the public operations
\* on any socket it was given, at any time.  A call made after some Close() on
\* the socket has returned comes back to "AppRetLate", any other to "AppRet".
AppCall(t) ==
    /\ ~crashed
    /\ pc[t] = "idle"
    /\ \E c \in created, o \in Ops \cup {"Close"},
          n \in 1..MaxBuf :
          /\ o \in {"Close", "IsClosed"} => n = 1
          /\ (o = "Write" /\ m_bev[c] = "valid") => Len(outbuf[c]) + n <= MaxBuf
          /\ Call(t, c, IF o = "Close" THEN "Close" ELSE "OpFast",
                  IF closeReturned[c] THEN "AppRetLate" ELSE "AppRet")
          /\ op' = [op EXCEPT ![t] = o]
          /\ arg' = [arg EXCEPT ![t] = n]
    /\ res' = [res EXCEPT ![t] = NoResult]
    /\ UNCHANGED <<sockVars, workerVars, acceptVars>>
    /\ UNCHANGED <<rIdx, rPass, events, assertFailed, crashed>>

\* The call has returned to the application, which has its result in res.
AppReturn(t) ==
    /\ ~crashed
    /\ pc[t] \in {"AppRet", "AppRetLate"}
    /\ Goto(t, "idle")
    /\ Forget(t)
    /\ UNCHANGED <<sockVars, workerVars, acceptVars>>
    /\ UNCHANGED <<rIdx, rPass, events, assertFailed, crashed>>

\* ---------------------------------------------------------------- the reactor (service) thread
\* NetworkThread.hpp:68-77: event_base_dispatch runs the callbacks the Socket
\* constructor registered (Socket.cpp:44-46).  The reactor takes the stream's
\* lock, and runs the callback only if it is still set and enabled.
\* kind: "read" (a byte arrived), "eof" (BEV_EVENT_EOF|ERROR), "other".
Dispatch(c, kind) ==
    /\ ~crashed
    /\ pc[Reactor] = "idle"
    /\ ~loopBroken
    /\ cbSet[c]
    /\ bevOwner[c] = NoThread
    /\ bevOwner' = [bevOwner EXCEPT ![c] = Reactor]
    /\ bevCount' = [bevCount EXCEPT ![c] = 1]
    /\ cur' = [cur EXCEPT ![Reactor] = c]
    /\ events' = kind
    /\ IF kind = "read"
         THEN /\ Len(inbuf[c]) < MaxBuf
              /\ \E b \in Bytes : inbuf' = [inbuf EXCEPT ![c] = Append(@, b)]
              /\ Goto(Reactor, "RCbStatic")
         ELSE /\ UNCHANGED inbuf
              /\ Goto(Reactor, "ECbStatic")
    /\ UNCHANGED <<m_bev, cbSet, streamFreed, closeNotified, closeReturned, readLock,
                   writeLock, outbuf, created, destroyed>>
    /\ UNCHANGED <<workerVars, acceptVars>>
    /\ UNCHANGED <<ret, op, arg, res, rIdx, rPass, assertFailed, crashed>>

\* Socket.cpp:89-92 and 104-107: bufferevent_lock(bev); assert(sock->m_bev == bev);
\* bufferevent_unlock(bev).  A failed assert aborts, or is compiled out (NDEBUG).
StaticCallback(t) ==
    /\ ~crashed
    /\ pc[t] \in {"RCbStatic", "ECbStatic"}
    /\ bevOwner[cur[t]] \in {NoThread, t}
    /\ IF m_bev[cur[t]] = "valid"
         THEN UNCHANGED <<assertFailed, crashed>>
         ELSE /\ assertFailed' = TRUE
              /\ crashed' \in BOOLEAN
    /\ IF pc[t] = "RCbStatic"
         THEN Goto(t, "RCLoop") /\ UNCHANGED <<ret, op>>
         ELSE IF events = "eof"
                THEN /\ pc' = [pc EXCEPT ![t] = "Close"]
                     /\ ret' = [ret EXCEPT ![t] = "CbRet"]
                     /\ op' = [op EXCEPT ![t] = "Close"]
                ELSE Goto(t, "CbRet") /\ UNCHANGED <<ret, op>>
    /\ UNCHANGED <<sockVars, workerVars, acceptVars>>
    /\ UNCHANGED <<cur, arg, res, rIdx, rPass, events>>

\* Socket.cpp:115  while (ReadLengthRemaining() > 0): the call.
ReadCallbackLoop(t) ==
    /\ ~crashed
    /\ pc[t] = "RCLoop"
    /\ Call(t, cur[t], "OpFast", "RCLen")
    /\ op' = [op EXCEPT ![t] = "ReadLengthRemaining"]
    /\ UNCHANGED <<sockVars, workerVars, acceptVars>>
    /\ UNCHANGED <<arg, res, rIdx, rPass, events, assertFailed, crashed>>

\* Socket.cpp:115  the loop test on the value ReadLengthRemaining returned.
ReadCallbackTest(t) ==
    /\ ~crashed
    /\ pc[t] = "RCLen"
    /\ Goto(t, IF res[t].n > 0 THEN "PID" ELSE "CbRet")
    /\ res' = [res EXCEPT ![t] = NoResult]
    /\ UNCHANGED <<sockVars, workerVars, acceptVars>>
    /\ UNCHANGED <<ret, cur, op, arg, rIdx, rPass, events, assertFailed, crashed>>

\* Socket.cpp:117  ProcessIncomingData(), the pure virtual of Socket.hpp:56.  A
\* handler reads a message of n bytes and returns what Read returned; or returns
\* false with errno unset; or returns false with errno = EBADMSG; or closes the
\* socket and returns false.
ProcessIncomingData(t) ==
    /\ ~crashed
    /\ pc[t] = "PID"
    /\ \/ \E n \in 1..MaxBuf :
            /\ Call(t, cur[t], "OpFast", "PIDRet")
            /\ op' = [op EXCEPT ![t] = "Read"]
            /\ arg' = [arg EXCEPT ![t] = n]
       \/ /\ Goto(t, "CbRet")
          /\ UNCHANGED <<ret, cur, op, arg>>
       \/ /\ Goto(t, "RCBadMsg")
          /\ UNCHANGED <<ret, cur, op, arg>>
       \/ /\ Call(t, cur[t], "Close", "CbRet")
          /\ op' = [op EXCEPT ![t] = "Close"]
          /\ UNCHANGED arg
    /\ UNCHANGED <<sockVars, workerVars, acceptVars>>
    /\ UNCHANGED <<res, rIdx, rPass, events, assertFailed, crashed>>

\* Socket.cpp:117-127  if (!ProcessIncomingData()) { ... return; }
ReadCallbackHandled(t) ==
    /\ ~crashed
    /\ pc[t] = "PIDRet"
    /\ Goto(t, IF res[t].b THEN "RCLoop" ELSE "CbRet")
    /\ res' = [res EXCEPT ![t] = NoResult]
    /\ UNCHANGED <<sockVars, workerVars, acceptVars>>
    /\ UNCHANGED <<ret, cur, op, arg, rIdx, rPass, events, assertFailed, crashed>>

\* The EBADMSG branch with the commented-out Close() of Socket.cpp:124 put
\* back: the callback closes the socket before it returns.
ReadCallbackBadMsgCloses(t) ==
    /\ ~crashed
    /\ pc[t] = "RCBadMsg"
    /\ Call(t, cur[t], "Close", "CbRet")
    /\ op' = [op EXCEPT ![t] = "Close"]
    /\ UNCHANGED <<sockVars, workerVars, acceptVars>>
    /\ UNCHANGED <<arg, res, rIdx, rPass, events, assertFailed, crashed>>

\* Socket.cpp:121-126  errno == EBADMSG: log, then return; nothing else is done.
ReadCallbackBadMsg(t) ==
    /\ ~crashed
    /\ pc[t] = "RCBadMsg"
    /\ Goto(t, "CbRet")
    /\ UNCHANGED <<sockVars, workerVars, acceptVars>>
    /\ UNCHANGED <<ret, cur, op, arg, res, rIdx, rPass, events, assertFailed, crashed>>

\* Socket.cpp:100,110  the static callback returns to the reactor, which releases
\* the hold on the stream's lock it took before the call.
CallbackReturn(t) ==
    /\ ~crashed
    /\ pc[t] = "CbRet"
    /\ bevCount' = [bevCount EXCEPT ![cur[t]] = IF @ > 0 THEN @ - 1 ELSE 0]
    /\ bevOwner' = [bevOwner EXCEPT ![cur[t]] = IF bevCount[cur[t]] <= 1 THEN NoThread ELSE @]
    /\ Goto(t, "idle")
    /\ Forget(t)
    /\ events' = "none"
    /\ UNCHANGED <<m_bev, cbSet, streamFreed, closeNotified, closeReturned, readLock,
                   writeLock, inbuf, outbuf, created, destroyed>>
    /\ UNCHANGED <<workerVars, acceptVars>>
    /\ UNCHANGED <<rIdx, rPass, assertFailed, crashed>>

\* NetworkThread.hpp:72-76  while (!m_pendingShutdown) { dispatch; sleep }: the
\* dispatch returns when the loop is broken or no event is registered, and the
\* thread ends when it then finds the flag set.
ReactorExit ==
    /\ ~crashed
    /\ pc[Reactor] = "idle"
    /\ m_pendingShutdown
    /\ loopBroken \/ \A c \in Conns : ~cbSet[c]
    /\ Goto(Reactor, "exited")
    /\ UNCHANGED <<sockVars, workerVars, acceptVars>>
    /\ UNCHANGED <<ret, cur, op, arg, res, rIdx, rPass, events, assertFailed, crashed>>

\* ---------------------------------------------------------------- the cleanup (reaper) thread
\* NetworkThread.hpp:124-126  while (!m_pendingShutdown || !m_closingSockets.empty())
\* { sleep_for(WorkDelay); ...   (the list is read without its lock)
ReaperCondition ==
    /\ ~crashed
    /\ pc[Reaper] = "RCond"
    /\ Goto(Reaper, IF ~m_pendingShutdown \/ m_closingSockets # <<>>
                      THEN "RLock" ELSE "exited")
    /\ UNCHANGED <<sockVars, workerVars, acceptVars>>
    /\ UNCHANGED <<ret, cur, op, arg, res, rIdx, rPass, events, assertFailed, crashed>>

\* NetworkThread.hpp:128-130  lock_guard guard(m_closingSocketLock); i = begin()
ReaperLock ==
    /\ ~crashed
    /\ pc[Reaper] = "RLock"
    /\ m_closingSocketLock = NoThread
    /\ m_closingSocketLock' = Reaper
    /\ rIdx' = 1
    /\ rPass' = m_closingSockets
    /\ Goto(Reaper, "RIter")
    /\ UNCHANGED <<m_sockets, m_closingSockets, m_socketLock,
                   m_pendingShutdown, loopBroken, baseFreed>>
    /\ UNCHANGED <<sockVars, acceptVars>>
    /\ UNCHANGED <<ret, cur, op, arg, res, events, assertFailed, crashed>>

\* NetworkThread.hpp:130-132  i != end(): call (*i)->IsClosed(); at end() the
\* guard is released and the loop condition is tested again.
ReaperIter ==
    /\ ~crashed
    /\ pc[Reaper] = "RIter"
    /\ IF rIdx <= Len(m_closingSockets)
         THEN /\ Call(Reaper, m_closingSockets[rIdx], "OpFast", "RErase")
              /\ op' = [op EXCEPT ![Reaper] = "IsClosed"]
              /\ UNCHANGED m_closingSocketLock
         ELSE /\ Goto(Reaper, "RCond")
              /\ m_closingSocketLock' = NoThread
              /\ UNCHANGED <<ret, cur, op>>
    /\ rIdx' = IF rIdx <= Len(m_closingSockets) THEN rIdx ELSE 1
    /\ rPass' = IF rIdx <= Len(m_closingSockets) THEN rPass ELSE <<>>
    /\ UNCHANGED <<m_sockets, m_closingSockets, m_socketLock,
                   m_pendingShutdown, loopBroken, baseFreed>>
    /\ UNCHANGED <<sockVars, acceptVars>>
    /\ UNCHANGED <<arg, res, events, assertFailed, crashed>>

\* NetworkThread.hpp:132-135  if closed: i = erase(i), which destroys the Socket
\* the entry owns; else ++i.
ReaperErase ==
    /\ ~crashed
    /\ pc[Reaper] = "RErase"
    /\ IF res[Reaper].b
         THEN /\ m_closingSockets' = Without(m_closingSockets, cur[Reaper])
              /\ destroyed' = destroyed \cup {cur[Reaper]}
              /\ UNCHANGED rIdx
         ELSE /\ rIdx' = rIdx + 1
              /\ UNCHANGED <<m_closingSockets, destroyed>>
    /\ Goto(Reaper, "RIter")
    /\ Forget(Reaper)
    /\ UNCHANGED <<m_bev, cbSet, streamFreed, closeNotified, closeReturned, readLock,
                   writeLock, bevOwner, bevCount, inbuf, outbuf, created>>
    /\ UNCHANGED <<m_sockets, m_socketLock, m_closingSocketLock,
                   m_pendingShutdown, loopBroken, baseFreed>>
    /\ UNCHANGED acceptVars
    /\ UNCHANGED <<rPass, events, assertFailed, crashed>>

\* ---------------------------------------------------------------- the acceptor thread
\* NetworkThread.hpp:143  std::lock_guard<std::mutex> guard(m_socketLock);
\* (Listener.hpp:153-154: AcceptCallback calls CreateSocket on the selected worker.)
CreateSocketLock ==
    /\ ~crashed
    /\ pc[Acceptor] = "idle"
    /\ Cardinality(created) < SpecConns
    /\ Cardinality(created) < MaxConns
    /\ m_socketLock = NoThread
    /\ m_socketLock' = Acceptor
    /\ Goto(Acceptor, "create")
    /\ UNCHANGED <<m_sockets, m_closingSockets, m_closingSocketLock,
                   m_pendingShutdown, loopBroken, baseFreed>>
    /\ UNCHANGED <<sockVars, acceptVars>>
    /\ UNCHANGED <<ret, cur, op, arg, res, rIdx, rPass, events, assertFailed, crashed>>

\* NetworkThread.hpp:145-150 and Socket.cpp:35-47: construct the Socket (stream
\* made, callbacks set, EV_READ|EV_WRITE enabled), push it to the front of
\* m_sockets, release the guard.
CreateSocket ==
    /\ ~crashed
    /\ pc[Acceptor] = "create"
    /\ LET c == Cardinality(created) + 1 IN
         /\ created' = created \cup {c}
         /\ m_bev' = [m_bev EXCEPT ![c] = "valid"]
         /\ cbSet' = [cbSet EXCEPT ![c] = TRUE]
         /\ m_sockets' = PushFront(m_sockets, c)
    /\ m_socketLock' = NoThread
    /\ Goto(Acceptor, "idle")
    /\ UNCHANGED <<streamFreed, closeNotified, closeReturned, readLock, writeLock,
                   bevOwner, bevCount, inbuf, outbuf, destroyed>>
    /\ UNCHANGED <<m_closingSockets, m_closingSocketLock,
                   m_pendingShutdown, loopBroken, baseFreed>>
    /\ UNCHANGED acceptVars
    /\ UNCHANGED <<ret, cur, op, arg, res, rIdx, rPass, events, assertFailed, crashed>>

\* An error handler that breaks the worker's loop as well as the listener's.
AcceptErrorBreaksWorker ==
    /\ ~crashed
    /\ pc[Acceptor] = "idle"
    /\ Goto(Acceptor, "stopped")
    /\ loopBroken' = TRUE
    /\ UNCHANGED <<m_sockets, m_closingSockets, m_socketLock, m_closingSocketLock,
                   m_pendingShutdown, baseFreed>>
    /\ UNCHANGED <<sockVars, acceptVars>>
    /\ UNCHANGED <<ret, cur, op, arg, res, rIdx, rPass, events, assertFailed, crashed>>

\* Listener.hpp:157-168  AcceptErrorCallback: assert(base); log the error;
\* event_base_loopbreak(base) on the listener's own base.  The dispatch of
\* Listener.hpp:135 returns and the acceptor thread ends.
AcceptErrorCallback ==
    /\ ~crashed
    /\ pc[Acceptor] = "idle"
    /\ Goto(Acceptor, "stopped")
    /\ UNCHANGED <<sockVars, workerVars, acceptVars>>
    /\ UNCHANGED <<ret, cur, op, arg, res, rIdx, rPass, events, assertFailed, crashed>>

\* ---------------------------------------------------------------- ~NetworkThread
\* Listener.hpp:139-145: ~Listener breaks the acceptor's loop (broken already
\* after an accept error) and joins the acceptor thread before m_workerThreads,
\* and so each NetworkThread, is destroyed.
DtorStart ==
    /\ ~crashed
    /\ pc[Dtor] = "DIdle"
    /\ pc[Acceptor] \in {"idle", "stopped"}
    /\ pc' = [pc EXCEPT ![Dtor] = "DLoop", ![Acceptor] = "stopped"]
    /\ UNCHANGED <<sockVars, workerVars, acceptVars>>
    /\ UNCHANGED <<ret, cur, op, arg, res, rIdx, rPass, events, assertFailed, crashed>>

\* NetworkThread.hpp:83  while (!m_sockets.empty())   (no lock is held)
DtorLoop ==
    /\ ~crashed
    /\ pc[Dtor] = "DLoop"
    /\ Goto(Dtor, IF m_sockets # <<>> THEN "DFront" ELSE "DFlag")
    /\ Forget(Dtor)
    /\ UNCHANGED <<sockVars, workerVars, acceptVars>>
    /\ UNCHANGED <<rIdx, rPass, events, assertFailed, crashed>>

\* NetworkThread.hpp:86  m_sockets.front()->IsClosed().  front() of a list that
\* another thread has emptied since the test is undefined: the process aborts.
DtorFront ==
    /\ ~crashed
    /\ pc[Dtor] = "DFront"
    /\ IF m_sockets # <<>>
         THEN /\ Call(Dtor, Head(m_sockets), "OpFast", "DDecide")
              /\ op' = [op EXCEPT ![Dtor] = "IsClosed"]
              /\ UNCHANGED crashed
         ELSE /\ crashed' = TRUE
              /\ UNCHANGED <<pc, ret, cur, op>>
    /\ UNCHANGED <<sockVars, workerVars, acceptVars>>
    /\ UNCHANGED <<arg, res, rIdx, rPass, events, assertFailed>>

\* NetworkThread.hpp:86-89  if (closed) erase the head, else Close() the head.
DtorDecide ==
    /\ ~crashed
    /\ pc[Dtor] = "DDecide"
    /\ Goto(Dtor, IF res[Dtor].b THEN "DErase" ELSE "DClose")
    /\ UNCHANGED <<sockVars, workerVars, acceptVars>>
    /\ UNCHANGED <<ret, cur, op, arg, res, rIdx, rPass, events, assertFailed, crashed>>

\* NetworkThread.hpp:87  m_sockets.erase(m_sockets.begin()): the entry that is
\* the head now is erased and its Socket destroyed.  ~Socket (Socket.hpp:65)
\* asserts IsClosed(): on a socket whose m_bev is valid the assert aborts, or is
\* compiled out.  begin() of an emptied list is undefined: the process aborts.
DtorErase ==
    /\ ~crashed
    /\ pc[Dtor] = "DErase"
    /\ IF m_sockets # <<>>
         THEN /\ m_sockets' = Tail(m_sockets)
              /\ destroyed' = destroyed \cup {Head(m_sockets)}
              /\ Goto(Dtor, "DLoop")
              /\ IF m_bev[Head(m_sockets)] = "valid"
                   THEN crashed' \in BOOLEAN
                   ELSE UNCHANGED crashed
         ELSE /\ crashed' = TRUE
              /\ UNCHANGED <<pc, m_sockets, destroyed>>
    /\ UNCHANGED <<m_bev, cbSet, streamFreed, closeNotified, closeReturned, readLock,
                   writeLock, bevOwner, bevCount, inbuf, outbuf, created>>
    /\ UNCHANGED <<m_closingSockets, m_socketLock, m_closingSocketLock,
                   m_pendingShutdown, loopBroken, baseFreed>>
    /\ UNCHANGED acceptVars
    /\ UNCHANGED <<ret, cur, op, arg, res, rIdx, rPass, events, assertFailed>>

\* NetworkThread.hpp:89  m_sockets.front()->Close()
DtorClose ==
    /\ ~crashed
    /\ pc[Dtor] = "DClose"
    /\ IF m_sockets # <<>>
         THEN /\ Call(Dtor, Head(m_sockets), "Close", "DLoop")
              /\ op' = [op EXCEPT ![Dtor] = "Close"]
              /\ UNCHANGED crashed
         ELSE /\ crashed' = TRUE
              /\ UNCHANGED <<pc, ret, cur, op>>
    /\ UNCHANGED <<sockVars, workerVars, acceptVars>>
    /\ UNCHANGED <<arg, res, rIdx, rPass, events, assertFailed>>

\* NetworkThread.hpp:92  m_pendingShutdown = true;
DtorFlag ==
    /\ ~crashed
    /\ pc[Dtor] = "DFlag"
    /\ m_pendingShutdown' = TRUE
    /\ Goto(Dtor, "DJoinReaper")
    /\ UNCHANGED <<m_sockets, m_closingSockets, m_socketLock, m_closingSocketLock,
                   loopBroken, baseFreed>>
    /\ UNCHANGED <<sockVars, acceptVars>>
    /\ UNCHANGED <<ret, cur, op, arg, res, rIdx, rPass, events, assertFailed, crashed>>

\* NetworkThread.hpp:93  m_socketCleanupThread.join();
DtorJoinReaper ==
    /\ ~crashed
    /\ pc[Dtor] = "DJoinReaper"
    /\ pc[Reaper] = "exited"
    /\ Goto(Dtor, "DBreak")
    /\ UNCHANGED <<sockVars, workerVars, acceptVars>>
    /\ UNCHANGED <<ret, cur, op, arg, res, rIdx, rPass, events, assertFailed, crashed>>

\* NetworkThread.hpp:94  event_base_loopbreak(m_base);
DtorLoopBreak ==
    /\ ~crashed
    /\ pc[Dtor] = "DBreak"
    /\ loopBroken' = TRUE
    /\ Goto(Dtor, "DJoinReactor")
    /\ UNCHANGED <<m_sockets, m_closingSockets, m_socketLock, m_closingSocketLock,
                   m_pendingShutdown, baseFreed>>
    /\ UNCHANGED <<sockVars, acceptVars>>
    /\ UNCHANGED <<ret, cur, op, arg, res, rIdx, rPass, events, assertFailed, crashed>>

\* NetworkThread.hpp:95  m_serviceThread.join();
DtorJoinReactor ==
    /\ ~crashed
    /\ pc[Dtor] = "DJoinReactor"
    /\ pc[Reactor] = "exited"
    /\ Goto(Dtor, "DFree")
    /\ UNCHANGED <<sockVars, workerVars, acceptVars>>
    /\ UNCHANGED <<ret, cur, op, arg, res, rIdx, rPass, events, assertFailed, crashed>>

\* NetworkThread.hpp:96  event_base_free(m_base);
DtorFreeBase ==
    /\ ~crashed
    /\ pc[Dtor] = "DFree"
    /\ baseFreed' = TRUE
    /\ Goto(Dtor, "done")
    /\ UNCHANGED <<m_sockets, m_closingSockets, m_socketLock, m_closingSocketLock,
                   m_pendingShutdown, loopBroken>>
    /\ UNCHANGED <<sockVars, acceptVars>>
    /\ UNCHANGED <<ret, cur, op, arg, res, rIdx, rPass, events, assertFailed, crashed>>

\* ---------------------------------------------------------------- use of a destroyed Socket
\* The program points at which a thread's next step reads or writes a member
\* of the Socket it is working on.
SocketLabels ==
    {"Close", "CloseRL", "CloseWL", "CloseChk", "CloseBevLock", "ClosePublish",
     "CloseUnlock", "CloseFree", "CloseNotify", "CloseRet",
     "OpFast", "OpLock", "OpBody", "RCbStatic", "ECbStatic", "RCLoop", "PID"}

\* Inside a member function of the socket (RemoveSocket returns into Close).
InsideLabels ==
    SocketLabels \cup {"RmLive", "RmClosing", "RmMove", "RCLen", "PIDRet", "RCBadMsg"}

\* Socket.hpp:65 / NetworkThread.hpp:87,133: once the destructor has run, a
\* member access by a thread still holding the pointer is undefined.  The step
\* either goes on with the memory as it was left (the socket's own actions) or
\* the process aborts.
UseAfterFreeCrash(t) ==
    /\ ~crashed
    /\ pc[t] \in SocketLabels
    /\ cur[t] \in destroyed
    /\ crashed' = TRUE
    /\ UNCHANGED <<sockVars, workerVars, acceptVars>>
    /\ UNCHANGED <<pc, ret, cur, op, arg, res, rIdx, rPass, events, assertFailed>>

\* ---------------------------------------------------------------- Spec
SocketStep(t) ==
    \/ CloseFast(t) \/ CloseReadLock(t) \/ CloseWriteLock(t) \/ CloseRecheck(t)
    \/ CloseBevLock(t) \/ ClosePublish(t) \/ CloseBevUnlock(t) \/ CloseFree(t)
    \/ CloseNotify(t) \/ CloseReturn(t)
    \/ RemoveSocketLock(t) \/ RemoveSocketClosingLock(t) \/ RemoveSocketMove(t)
    \/ OpFast(t) \/ OpLock(t) \/ OpBody(t)
    \/ UseAfterFreeCrash(t)

ReactorStep ==
    \/ \E c \in Conns, kind \in {"read", "eof", "other"} : Dispatch(c, kind)
    \/ StaticCallback(Reactor) \/ ReadCallbackLoop(Reactor) \/ ReadCallbackTest(Reactor)
    \/ ProcessIncomingData(Reactor) \/ ReadCallbackHandled(Reactor)
    \/ ReadCallbackBadMsg(Reactor) \/ CallbackReturn(Reactor) \/ ReactorExit

ReaperStep ==
    ReaperCondition \/ ReaperLock \/ ReaperIter \/ ReaperErase

AcceptorStep ==
    CreateSocketLock \/ CreateSocket \/ AcceptErrorCallback

DtorStep ==
    \/ DtorStart \/ DtorLoop \/ DtorFront \/ DtorDecide \/ DtorErase \/ DtorClose
    \/ DtorFlag \/ DtorJoinReaper \/ DtorLoopBreak \/ DtorJoinReactor \/ DtorFreeBase

Next ==
    \/ \E t \in Threads : SocketStep(t)
    \/ \E t \in Apps : AppCall(t) \/ AppReturn(t)
    \/ ReactorStep
    \/ ReaperStep
    \/ AcceptorStep
    \/ DtorStep

Spec ==
    Init /\ [][Next]_vars

\* The cleanup thread is an OS thread of its own: it is scheduled again and
\* again, so each of its steps that stays enabled is eventually taken.
ReaperNext ==
    \/ ReaperStep
    \/ SocketStep(Reaper)

\* So is every thread that is inside a Socket member function: a thread that
\* holds a lock and can go on does go on.  No thread is obliged to start a call,
\* and no event is obliged to arrive.
FairSpec ==
    /\ Spec
    /\ WF_vars(ReaperNext)
    /\ \A t \in Threads : WF_vars(SocketStep(t))

\* ---------------------------------------------------------------- SpecShutdown
\* A worker that has been given its MaxConns sockets (NetworkThread.hpp:145:
\* each pushed to the front, so the last one created is the head), all LIVE,
\* and is then destroyed while its reactor and cleanup threads run.
RECURSIVE Descending(_)
Descending(n) ==
    IF n = 0 THEN <<>> ELSE <<n>> \o Descending(n - 1)

InitShutdown ==
    /\ m_bev = [c \in Conns |-> "valid"]
    /\ cbSet = [c \in Conns |-> TRUE]
    /\ streamFreed = [c \in Conns |-> 0]
    /\ closeNotified = [c \in Conns |-> 0]
    /\ closeReturned = [c \in Conns |-> FALSE]
    /\ readLock = [c \in Conns |-> NoThread]
    /\ writeLock = [c \in Conns |-> NoThread]
    /\ bevOwner = [c \in Conns |-> NoThread]
    /\ bevCount = [c \in Conns |-> 0]
    /\ inbuf = [c \in Conns |-> <<>>]
    /\ outbuf = [c \in Conns |-> <<>>]
    /\ created = Conns
    /\ destroyed = {}
    /\ m_sockets = Descending(MaxConns)
    /\ m_closingSockets = <<>>
    /\ m_socketLock = NoThread
    /\ m_closingSocketLock = NoThread
    /\ m_pendingShutdown = FALSE
    /\ loopBroken = FALSE
    /\ baseFreed = FALSE
    /\ pc = [t \in Threads |->
               IF t = Reaper THEN "RCond" ELSE IF t = Dtor THEN "DIdle" ELSE "idle"]
    /\ ret = [t \in Threads |-> "idle"]
    /\ cur = [t \in Threads |-> 1]
    /\ op = [t \in Threads |-> "none"]
    /\ arg = [t \in Threads |-> 1]
    /\ res = [t \in Threads |-> NoResult]
    /\ rIdx = 1
    /\ rPass = <<>>
    /\ events = "none"
    /\ assertFailed = FALSE
    /\ crashed = FALSE
    /\ workerSockets = [w \in 1..NumWorkers |-> <<>>]
    /\ selPc = "idle"
    /\ selI = 1
    /\ minIndex = 1
    /\ minSize = 0
    /\ sizesRead = <<>>
    /\ lastSelect = <<<<>>, 0>>
    /\ accepted = 0
    /\ closes = 0
    /\ listener = ListenerBuilt

NextShutdown ==
    \/ \E t \in {Reactor, Reaper, Dtor} : SocketStep(t)
    \/ ReactorStep
    \/ ReaperStep
    \/ DtorStep

SpecShutdown ==
    InitShutdown /\ [][NextShutdown]_vars

\* ---------------------------------------------------------------- SpecRead
\* One LIVE socket whose input buffer holds any bytes up to MaxRead, and an
\* application thread that calls Read(buffer, n) on it again and again.
ReadBytes == {"a", "b"}

RECURSIVE SeqsUpTo(_, _)
SeqsUpTo(S, n) ==
    IF n = 0 THEN {<<>>}
    ELSE LET shorter == SeqsUpTo(S, n - 1)
         IN  shorter \cup {Append(q, x) : q \in shorter, x \in S}

InitRead ==
    /\ m_bev = [c \in Conns |-> IF c = 1 THEN "valid" ELSE "none"]
    /\ cbSet = [c \in Conns |-> c = 1]
    /\ streamFreed = [c \in Conns |-> 0]
    /\ closeNotified = [c \in Conns |-> 0]
    /\ closeReturned = [c \in Conns |-> FALSE]
    /\ readLock = [c \in Conns |-> NoThread]
    /\ writeLock = [c \in Conns |-> NoThread]
    /\ bevOwner = [c \in Conns |-> NoThread]
    /\ bevCount = [c \in Conns |-> 0]
    /\ \E q \in SeqsUpTo(ReadBytes, MaxRead) :
          inbuf = [c \in Conns |-> IF c = 1 THEN q ELSE <<>>]
    /\ \E q \in SeqsUpTo(ReadBytes, 1) :
          outbuf = [c \in Conns |-> IF c = 1 THEN q ELSE <<>>]
    /\ created = {1}
    /\ destroyed = {}
    /\ m_sockets = <<1>>
    /\ m_closingSockets = <<>>
    /\ m_socketLock = NoThread
    /\ m_closingSocketLock = NoThread
    /\ m_pendingShutdown = FALSE
    /\ loopBroken = FALSE
    /\ baseFreed = FALSE
    /\ pc = [t \in Threads |->
               IF t = Reaper THEN "RCond" ELSE IF t = Dtor THEN "DIdle" ELSE "idle"]
    /\ ret = [t \in Threads |-> "idle"]
    /\ cur = [t \in Threads |-> 1]
    /\ op = [t \in Threads |-> "none"]
    /\ arg = [t \in Threads |-> 1]
    /\ res = [t \in Threads |-> NoResult]
    /\ rIdx = 1
    /\ rPass = <<>>
    /\ events = "none"
    /\ assertFailed = FALSE
    /\ crashed = FALSE
    /\ workerSockets = [w \in 1..NumWorkers |-> <<>>]
    /\ selPc = "idle"
    /\ selI = 1
    /\ minIndex = 1
    /\ minSize = 0
    /\ sizesRead = <<>>
    /\ lastSelect = <<<<>>, 0>>
    /\ accepted = 0
    /\ closes = 0
    /\ listener = ListenerBuilt

\* Socket.cpp:131  bool Socket::Read(char *buffer, int length), called with
\* any length from 0 to one more than the buffer can hold.
ReadCall(t) ==
    /\ ~crashed
    /\ pc[t] = "idle"
    /\ \E n \in 0..(MaxRead + 1) :
          /\ Call(t, 1, "OpFast", "AppRet")
          /\ op' = [op EXCEPT ![t] = "Read"]
          /\ arg' = [arg EXCEPT ![t] = n]
    /\ res' = [res EXCEPT ![t] = NoResult]
    /\ UNCHANGED <<sockVars, workerVars, acceptVars>>
    /\ UNCHANGED <<rIdx, rPass, events, assertFailed, crashed>>

NextRead ==
    \E t \in Apps :
        \/ ReadCall(t)
        \/ OpFast(t)
        \/ OpLock(t)
        \/ OpBody(t)
        \/ AppReturn(t)

SpecRead ==
    InitRead /\ [][NextRead]_vars

\* ---------------------------------------------------------------- SpecCallback
\* One LIVE socket whose input buffer holds any bytes up to MaxRead, and the
\* reactor thread alone: it runs the socket's callbacks, and whatever they call.
\* Socket.cpp:44-46: the read callback is run for bytes libevent has already
\* put in the input buffer.
DispatchBuffered(c) ==
    /\ ~crashed
    /\ pc[Reactor] = "idle"
    /\ ~loopBroken
    /\ cbSet[c]
    /\ bevOwner[c] = NoThread
    /\ inbuf[c] # <<>>
    /\ bevOwner' = [bevOwner EXCEPT ![c] = Reactor]
    /\ bevCount' = [bevCount EXCEPT ![c] = 1]
    /\ cur' = [cur EXCEPT ![Reactor] = c]
    /\ events' = "read"
    /\ Goto(Reactor, "RCbStatic")
    /\ UNCHANGED <<m_bev, cbSet, streamFreed, closeNotified, closeReturned, readLock,
                   writeLock, inbuf, outbuf, created, destroyed>>
    /\ UNCHANGED <<workerVars, acceptVars>>
    /\ UNCHANGED <<ret, op, arg, res, rIdx, rPass, assertFailed, crashed>>

NextCallback ==
    \/ \E c \in Conns : DispatchBuffered(c)
    \/ \E c \in Conns, kind \in {"read", "eof", "other"} : Dispatch(c, kind)
    \/ StaticCallback(Reactor)
    \/ ReadCallbackLoop(Reactor)
    \/ ReadCallbackTest(Reactor)
    \/ ProcessIncomingData(Reactor)
    \/ ReadCallbackHandled(Reactor)
    \/ ReadCallbackBadMsg(Reactor)
    \/ CallbackReturn(Reactor)
    \/ CloseFast(Reactor)
    \/ CloseReadLock(Reactor)
    \/ CloseWriteLock(Reactor)
    \/ CloseRecheck(Reactor)
    \/ CloseBevLock(Reactor)
    \/ ClosePublish(Reactor)
    \/ CloseBevUnlock(Reactor)
    \/ CloseFree(Reactor)
    \/ CloseNotify(Reactor)
    \/ CloseReturn(Reactor)
    \/ RemoveSocketLock(Reactor)
    \/ RemoveSocketClosingLock(Reactor)
    \/ RemoveSocketMove(Reactor)
    \/ OpFast(Reactor)
    \/ OpLock(Reactor)
    \/ OpBody(Reactor)

SpecCallback ==
    InitRead /\ [][NextCallback]_vars

\* ---------------------------------------------------------------- Listener::Listener (SpecListen)
\* The constructor is called with any number of worker threads up to NumWorkers
\* and a bind address that inet_aton accepts or refuses.  The variables of the
\* worker and of its sockets are not used here and keep their first values.
ListenerNew(n, ok) ==
    [pc |-> "workers", workerThreads |-> n, bindOk |-> ok, stage |-> "none",
     m_workerThreads |-> 0, cleanupThreads |-> 0, serviceThreads |-> 0,
     m_acceptorThread |-> FALSE, m_base |-> "none", m_listener |-> FALSE,
     thrown |-> "none"]

InitListen ==
    /\ InitWorker
    /\ \E n \in 0..NumWorkers, ok \in BOOLEAN : listener = ListenerNew(n, ok)

\* Listener.hpp:103-104  for (i < workerThreads) ... new NetworkThread, whose
\* member initialisers (NetworkThread.hpp:60-61) start the cleanup thread.
ListenerWorker ==
    /\ ~crashed
    /\ listener.pc = "workers"
    /\ listener.stage = "none"
    /\ listener.m_workerThreads < listener.workerThreads
    /\ listener' = [listener EXCEPT !.stage = "cleanup", !.cleanupThreads = @ + 1]
    /\ UNCHANGED <<sockVars, workerVars, threadVars, selectVars>>

\* NetworkThread.hpp:63-67  m_base = event_base_new(); if (!m_base) throw.  The
\* exception leaves the constructor with m_socketCleanupThread joinable, and
\* the destructor of a joinable std::thread calls std::terminate.
NetworkThreadBase ==
    /\ ~crashed
    /\ listener.stage = "cleanup"
    /\ \/ /\ listener' = [listener EXCEPT !.stage = "base"]
          /\ UNCHANGED crashed
       \/ /\ listener' = [listener EXCEPT !.thrown = "terminate"]
          /\ crashed' = TRUE
    /\ UNCHANGED <<sockVars, workerVars, selectVars>>
    /\ UNCHANGED <<pc, ret, cur, op, arg, res, rIdx, rPass, events, assertFailed>>

\* NetworkThread.hpp:68-77  m_serviceThread = std::thread(...); then
\* Listener.hpp:104  m_workerThreads.push_back(...).
NetworkThreadService ==
    /\ ~crashed
    /\ listener.stage = "base"
    /\ listener' = [listener EXCEPT !.stage = "none", !.serviceThreads = @ + 1,
                                    !.m_workerThreads = @ + 1]
    /\ UNCHANGED <<sockVars, workerVars, threadVars, selectVars>>

\* Listener.hpp:106-110  m_base = event_base_new(); if (!m_base) throw
\* std::runtime_error.
ListenerBase ==
    /\ ~crashed
    /\ listener.pc = "workers"
    /\ listener.stage = "none"
    /\ listener.m_workerThreads = listener.workerThreads
    /\ \/ listener' = [listener EXCEPT !.m_base = "valid", !.pc = "addr"]
       \/ listener' = [listener EXCEPT !.thrown = "runtime_error", !.pc = "unwind"]
    /\ UNCHANGED <<sockVars, workerVars, threadVars, selectVars>>

\* Listener.hpp:114-121  if (inet_aton(bind_ip.c_str(), ...) == 0)
\*                         throw new std::runtime_error("Invalid BindIP");
\* What is thrown is a pointer to a heap object; m_base is not freed.
ListenerAddr ==
    /\ ~crashed
    /\ listener.pc = "addr"
    /\ IF listener.bindOk
         THEN listener' = [listener EXCEPT !.pc = "bind"]
         ELSE listener' = [listener EXCEPT !.thrown = "runtime_error*", !.pc = "unwind"]
    /\ UNCHANGED <<sockVars, workerVars, threadVars, selectVars>>

\* Listener.hpp:123-132  m_listener = evconnlistener_new_bind(...);
\* if (!m_listener) { event_base_free(m_base); throw std::runtime_error; }
ListenerBind ==
    /\ ~crashed
    /\ listener.pc = "bind"
    /\ \/ listener' = [listener EXCEPT !.m_listener = TRUE, !.pc = "thread"]
       \/ listener' = [listener EXCEPT !.m_base = "freed", !.thrown = "runtime_error",
                                       !.pc = "unwind"]
    /\ UNCHANGED <<sockVars, workerVars, threadVars, selectVars>>

\* Listener.hpp:133-135  evconnlistener_set_error_cb; m_acceptorThread =
\* std::thread([&]() { event_base_dispatch(m_base); });
ListenerThread ==
    /\ ~crashed
    /\ listener.pc = "thread"
    /\ listener' = [listener EXCEPT !.m_acceptorThread = TRUE, !.pc = "done"]
    /\ UNCHANGED <<sockVars, workerVars, threadVars, selectVars>>

\* The exception leaves the constructor: the members are destroyed, and with
\* m_workerThreads each NetworkThread (NetworkThread.hpp:80-97: no socket to
\* close; flag, join of the cleanup thread, loopbreak, join of the service
\* thread, event_base_free).  ~Listener is not run.
ListenerUnwind ==
    /\ ~crashed
    /\ listener.pc = "unwind"
    /\ IF listener.m_workerThreads > 0
         THEN listener' = [listener EXCEPT !.m_workerThreads = @ - 1,
                                          !.cleanupThreads = @ - 1,
                                          !.serviceThreads = @ - 1]
         ELSE listener' = [listener EXCEPT !.pc = "failed"]
    /\ UNCHANGED <<sockVars, workerVars, threadVars, selectVars>>

NextListen ==
    \/ ListenerWorker
    \/ NetworkThreadBase
    \/ NetworkThreadService
    \/ ListenerBase
    \/ ListenerAddr
    \/ ListenerBind
    \/ ListenerThread
    \/ ListenerUnwind

SpecListen ==
    InitListen /\ [][NextListen]_vars

\* ---------------------------------------------------------------- Listener (SpecAccept)
Workers == 1..NumWorkers

\* NetworkThread.hpp:99  size_t Size() const { return m_sockets.size(); }
Size(w) ==
    Len(workerSockets[w])

\* A comparison that also replaces the minimum on a tie.
SelectLessOrEqual(size, min) ==
    size <= min

\* A comparison turned round: the larger size replaces the minimum.
SelectGreater(size, min) ==
    size > min

\* Listener.hpp:81  if (size < minSize)
SelectLess(size, min) ==
    size < min

\* Listener.hpp:74-75 (AcceptCallback, 153, calls SelectWorker): minIndex = 0;
\* minSize = m_workerThreads[0]->Size().  Workers are numbered from 1 here.
SelectStart ==
    /\ selPc = "idle"
    /\ accepted < MaxAccepts
    /\ minIndex' = 1
    /\ minSize' = Size(1)
    /\ sizesRead' = <<Size(1)>>
    /\ selI' = 2
    /\ selPc' = "select"
    /\ UNCHANGED <<workerSockets, lastSelect, accepted, closes>>
    /\ UNCHANGED <<sockVars, workerVars, threadVars, listener>>

\* Listener.hpp:77-86  one turn of the loop: read Size() of worker i, compare.
SelectStep ==
    /\ selPc = "select"
    /\ selI <= NumWorkers
    /\ LET size == Size(selI) IN
         /\ sizesRead' = Append(sizesRead, size)
         /\ IF SelectLess(size, minSize)
              THEN minSize' = size /\ minIndex' = selI
              ELSE UNCHANGED <<minSize, minIndex>>
    /\ selI' = selI + 1
    /\ UNCHANGED <<workerSockets, selPc, lastSelect, accepted, closes>>
    /\ UNCHANGED <<sockVars, workerVars, threadVars, listener>>

\* Listener.hpp:88  return m_workerThreads[minIndex].get();
SelectReturn ==
    /\ selPc = "select"
    /\ selI > NumWorkers
    /\ lastSelect' = <<sizesRead, minIndex>>
    /\ selPc' = "create"
    /\ UNCHANGED <<workerSockets, selI, minIndex, minSize, sizesRead, accepted, closes>>
    /\ UNCHANGED <<sockVars, workerVars, threadVars, listener>>

\* Listener.hpp:154 and NetworkThread.hpp:141-150  worker->CreateSocket(fd, address):
\* the new socket goes to the front of the selected worker's m_sockets.
AcceptCreateSocket ==
    /\ selPc = "create"
    /\ workerSockets' = [workerSockets EXCEPT ![minIndex] = PushFront(@, accepted + 1)]
    /\ accepted' = accepted + 1
    /\ selPc' = "idle"
    /\ selI' = 1
    /\ minIndex' = 1
    /\ minSize' = 0
    /\ sizesRead' = <<>>
    /\ UNCHANGED <<lastSelect, closes>>
    /\ UNCHANGED <<sockVars, workerVars, threadVars, listener>>

\* Socket.cpp:73-74 and NetworkThread.hpp:103-115: a socket of worker w is
\* closed on another thread, and RemoveSocket erases it from w's m_sockets.
WorkerClose(w, c) ==
    /\ InList(workerSockets[w], c)
    /\ workerSockets' = [workerSockets EXCEPT ![w] = Without(@, c)]
    /\ closes' = closes + 1
    /\ UNCHANGED <<selPc, selI, minIndex, minSize, sizesRead, lastSelect, accepted>>
    /\ UNCHANGED <<sockVars, workerVars, threadVars, listener>>

NextAccept ==
    \/ SelectStart
    \/ SelectStep
    \/ SelectReturn
    \/ AcceptCreateSocket
    \/ \E w \in Workers, c \in 1..MaxAccepts : WorkerClose(w, c)

SpecAccept ==
    Init /\ [][NextAccept]_vars

\* ================================================================ properties
CloseLabels ==
    {"Close", "CloseRL", "CloseWL", "CloseChk", "CloseBevLock", "ClosePublish",
     "CloseUnlock", "CloseFree", "CloseNotify", "RmLive", "RmClosing", "RmMove",
     "CloseRet"}

InClose(t, c) ==
    cur[t] = c /\ pc[t] \in CloseLabels

\* Close() has been called on c: its handle has been nulled by a call, or a
\* call has come back.
CloseCalled(c) ==
    m_bev[c] = "null" \/ closeReturned[c]

\* No thread will take another step inside Close() on c: every call has
\* returned, or the process has stopped.
CloseSettled(c) ==
    \A t \in Threads : InClose(t, c) => crashed

\* C1. Close idempotence: whatever number of Close() calls application threads,
\* the reactor's event callback and ~NetworkThread make on a socket, in any
\* interleaving, the close handler is never invoked twice and the stream never
\* freed twice; and once no call is going to take another step, the handler has
\* been invoked exactly once and the stream freed exactly once.
C1_CloseExactlyOnce ==
    \A c \in Conns :
        /\ closeNotified[c] <= 1
        /\ streamFreed[c] <= 1
        /\ (CloseCalled(c) /\ CloseSettled(c))
              => (closeNotified[c] = 1 /\ streamFreed[c] = 1)

\* The locks a thread holds and the lock it is waiting for, as ranks in the
\* documented order: 1 m_socketLock, 2 m_closingSocketLock, 3 m_readLock,
\* 4 m_writeLock, 5 the stream's lock.
HeldRanks(t) ==
    (IF m_socketLock = t THEN {1} ELSE {})
    \cup (IF m_closingSocketLock = t THEN {2} ELSE {})
    \cup (IF \E c \in Conns : readLock[c] = t THEN {3} ELSE {})
    \cup (IF \E c \in Conns : writeLock[c] = t THEN {4} ELSE {})
    \cup (IF \E c \in Conns : bevOwner[c] = t THEN {5} ELSE {})

RequestedRanks(t) ==
    CASE pc[t] = "RmLive" -> {1}
      [] pc[t] \in {"RmClosing", "RLock"} -> {2}
      [] pc[t] = "CloseRL" -> {3}
      [] pc[t] = "OpLock" -> IF op[t] = "Write" THEN {4} ELSE {3}
      [] pc[t] = "CloseWL" -> {4}
      [] pc[t] \in {"CloseBevLock", "RCbStatic", "ECbStatic"} -> {5}
      [] OTHER -> {}

\* C2. Lock order: a thread that is about to take one of the five locks holds
\* no lock that comes later in the order live, closing, read, write, stream.
C2_LockOrder ==
    \A t \in Threads :
        \A want \in RequestedRanks(t) : \A held \in HeldRanks(t) : held <= want

\* C3. Close() against a running callback: there is no state in which a thread
\* inside Close() holds the socket's read and write locks and waits for the
\* stream's lock, which the reactor holds for the callback it is running, while
\* that callback waits for the socket's read or write lock.
C3_NoCloseCallbackDeadlock ==
    ~ \E c \in Conns, t \in Threads \ {Reactor} :
         /\ pc[t] = "CloseBevLock" /\ cur[t] = c
         /\ readLock[c] = t /\ writeLock[c] = t
         /\ bevOwner[c] = Reactor
         /\ cur[Reactor] = c
         /\ pc[Reactor] \in {"OpLock", "CloseRL", "CloseWL"}

\* A callback's steps that use the stream handle it was given.
CallbackUsesHandle(c) ==
    /\ cur[Reactor] = c
    /\ pc[Reactor] \in {"RCbStatic", "ECbStatic"}

CallbackBegins(c) ==
    /\ pc[Reactor] = "idle"
    /\ pc'[Reactor] \in {"RCbStatic", "ECbStatic"}
    /\ cur'[Reactor] = c

\* C4. Close ordering: once a Close() has returned, no read or event callback
\* begins on the socket; and when the stream is freed, m_bev no longer holds it
\* and no callback is at a point where it still uses the handle it was given.
C4_CloseOrdering ==
    /\ [](\A c \in Conns : streamFreed[c] > 0 =>
              (m_bev[c] # "valid" /\ ~CallbackUsesHandle(c)))
    /\ [][\A c \in Conns : closeReturned[c] => ~CallbackBegins(c)]_vars

\* C4 witness: a Close() has returned and freed the stream, and the reactor is
\* between callbacks with its loop still running.
C4_Witness ==
    \E c \in Conns :
        /\ streamFreed[c] = 1 /\ closeReturned[c]
        /\ cbSet[c] = FALSE
        /\ pc[Reactor] = "idle"
        /\ ~loopBroken /\ ~crashed

ReadOps ==
    {"Read", "Write", "ReadSkip", "InPeek", "ReadLengthRemaining"}

\* C5. Post-detach safety: an application call to Read, Write, ReadSkip, InPeek
\* or ReadLengthRemaining made after a Close() on the socket has returned never
\* touches a Socket that has been destroyed, and comes back with the detached
\* value (Read false, InPeek nullptr, ReadLengthRemaining 0).  The worker is
\* alive throughout: ~NetworkThread has not been entered.
C5_PostDetachSafe ==
    \A t \in Apps :
        (ret[t] = "AppRetLate" /\ op[t] \in ReadOps /\ pc[Dtor] = "DIdle") =>
            /\ pc[t] \in SocketLabels => cur[t] \notin destroyed
            /\ pc[t] = "AppRetLate" => res[t] = Detached(op[t])

IsClosedReturns(t) ==
    /\ op[t] = "IsClosed"
    /\ pc[t] \in {"OpFast", "OpBody"}
    /\ pc'[t] = ret[t]

\* C6. LIVE to DETACHED only: once m_bev is null it is null in every later
\* state; IsClosed() returns true exactly when m_bev is null at its return; and
\* a thread that has been told true finds m_bev null from then on.
C6_DetachedMonotone ==
    /\ [][\A c \in Conns : m_bev[c] = "null" => m_bev'[c] = "null"]_vars
    /\ [][\A t \in Threads : IsClosedReturns(t) =>
              (res'[t].b <=> m_bev'[cur[t]] = "null")]_vars
    /\ [](\A t \in Threads :
              (op[t] = "IsClosed" /\ pc[t] = ret[t] /\ res[t].b)
                  => m_bev[cur[t]] = "null")

\* C6 witness: IsClosed() has returned true to the application.
C6_Witness ==
    \E t \in Apps :
        /\ op[t] = "IsClosed" /\ pc[t] \in {"AppRet", "AppRetLate"}
        /\ res[t].b
        /\ m_bev[cur[t]] = "null"

Count(list, x) ==
    Cardinality({i \in 1..Len(list) : list[i] = x})

\* C7. Each socket the worker has created is in exactly one of m_sockets,
\* m_closingSockets and destroyed, and once at most in a list; a socket not yet
\* created is in none.
C7_ExactlyOnePlace ==
    \A c \in Conns :
        LET places == Count(m_sockets, c) + Count(m_closingSockets, c)
                        + (IF c \in destroyed THEN 1 ELSE 0)
        IN  places = (IF c \in created THEN 1 ELSE 0)

\* C7 witness: RemoveSocket has moved a socket to m_closingSockets while
\* ~NetworkThread is running.
C7_Witness ==
    \E c \in Conns :
        /\ InList(m_closingSockets, c) /\ ~InList(m_sockets, c)
        /\ c \notin destroyed
        /\ pc[Dtor] \in {"DLoop", "DFront", "DDecide", "DErase", "DClose"}

\* The first index at which the vector v has its minimum.
FirstMinIndex(v) ==
    CHOOSE i \in 1..Len(v) :
        /\ \A j \in 1..Len(v) : v[i] <= v[j]
        /\ \A j \in 1..(i - 1) : v[j] > v[i]

\* C8. SelectWorker returns the first index of the minimum of the sizes it
\* read (while it runs, of the sizes read so far), and AcceptCallback gives the
\* accepted connection to the worker at that index.
C8_SelectsFirstMinimum ==
    /\ [](selPc \in {"select", "create"} =>
              /\ minIndex = FirstMinIndex(sizesRead)
              /\ minSize = sizesRead[minIndex])
    /\ [](lastSelect[1] # <<>> =>
              /\ Len(lastSelect[1]) = NumWorkers
              /\ lastSelect[2] = FirstMinIndex(lastSelect[1]))
    /\ [][(selPc = "create" /\ selPc' = "idle") =>
              /\ InList(workerSockets'[lastSelect[2]], accepted')
              /\ ~InList(workerSockets[lastSelect[2]], accepted')]_vars

\* C8 witness: a selection over sizes with a tie for the minimum that is not at
\* the first worker has returned, and the connection has been handed over.
C8_Witness ==
    /\ selPc = "idle"
    /\ lastSelect[1] # <<>>
    /\ lastSelect[2] > 1
    /\ \E j \in Workers :
          j > lastSelect[2] /\ lastSelect[1][j] = lastSelect[1][lastSelect[2]]
    /\ InList(workerSockets[lastSelect[2]], accepted)

\* C9. With no close since the start, after K accepts every worker holds
\* floor(K/N) or ceil(K/N) sockets; after 8 accepts over 4 workers, 2 each.
C9_Balanced ==
    closes = 0 =>
        /\ \A w \in Workers :
              Size(w) \in {accepted \div NumWorkers,
                           (accepted + NumWorkers - 1) \div NumWorkers}
        /\ (accepted = 8 /\ NumWorkers = 4) => \A w \in Workers : Size(w) = 2

\* C9 witness: 8 connections accepted over 4 workers, none closed.
C9_Witness ==
    /\ closes = 0
    /\ accepted = 8
    /\ NumWorkers = 4
    /\ selPc = "idle"
    /\ \A w \in Workers : Size(w) = 2

PassEnds ==
    pc[Reaper] = "RIter" /\ pc'[Reaper] = "RCond"

\* C10. Reaper liveness: a closed socket that is in m_closingSockets is
\* eventually erased from it and destroyed, and a pass of the cleanup thread
\* over m_closingSockets ends with every socket that was in the list when the
\* pass began erased and destroyed.
C10_ReaperErases ==
    /\ \A c \in Conns :
          (InList(m_closingSockets, c) /\ m_bev[c] = "null")
              ~> (~InList(m_closingSockets, c) /\ c \in destroyed)
    /\ [][PassEnds =>
             \A i \in 1..Len(rPass) :
                 /\ ~InList(m_closingSockets', rPass[i])
                 /\ rPass[i] \in destroyed']_vars

\* C11. Worker shutdown: when ~NetworkThread has run to its end, every socket
\* the worker created has had its close handler invoked exactly once and has
\* been destroyed, m_sockets and m_closingSockets are empty, and the cleanup
\* thread and the service thread have ended; and the cleanup thread has ended
\* only with m_pendingShutdown set and m_closingSockets empty.  ~NetworkThread
\* does run to its end: with every other thread between calls, it is never the
\* process stopping that leaves it unfinished.
C11_ShutdownCompletes ==
    /\ (crashed /\ pc[Reactor] \in {"idle", "exited"}
                /\ \A a \in Apps : pc[a] = "idle")
          => pc[Dtor] \in {"DIdle", "done"}
    /\ pc[Dtor] = "done" =>
          /\ \A c \in created : closeNotified[c] = 1 /\ c \in destroyed
          /\ m_sockets = <<>> /\ m_closingSockets = <<>>
          /\ pc[Reaper] = "exited" /\ pc[Reactor] = "exited"
    /\ pc[Reaper] = "exited" => (m_pendingShutdown /\ m_closingSockets = <<>>)

\* C13. m_sockets is changed only by CreateSocket, which puts one socket at the
\* front, and by RemoveSocket, which takes one socket out, and each does it
\* holding m_socketLock.
C13_LiveSetFrame ==
    [][m_sockets' # m_sockets =>
          \E t \in Threads :
              /\ m_socketLock = t
              /\ \/ /\ pc[t] = "create"
                    /\ \E c \in Conns : m_sockets' = PushFront(m_sockets, c)
                 \/ /\ pc[t] = "RmMove"
                    /\ InList(m_sockets, cur[t])
                    /\ m_sockets' = Without(m_sockets, cur[t])]_vars

\* The holds of the stream's lock a thread has when it enters Close(): the
\* reactor has one inside a callback, any other thread none.
HoldsBeforeClose(t, c) ==
    IF t = Reactor /\ events # "none" THEN 1 ELSE 0

\* C18. Close() releases the stream's lock it took: when it frees the stream
\* the lock is held as many times as before Close() was called, and by the
\* closing thread only if it held it before.
C18_StreamLockReleased ==
    \A t \in Threads :
        pc[t] = "CloseFree" =>
            /\ bevCount[cur[t]] = HoldsBeforeClose(t, cur[t])
            /\ bevOwner[cur[t]] = t => HoldsBeforeClose(t, cur[t]) > 0

\* C19. A Socket that has been destroyed has no thread inside one of its member
\* functions or callbacks.
C19_NoThreadInsideDestroyed ==
    \A t \in Threads :
        pc[t] \in InsideLabels => cur[t] \notin destroyed

\* C12. Shutdown order: a socket leaves the worker only closed (the live ones
\* are closed, the closed ones erased), so none is destroyed with m_bev valid;
\* m_pendingShutdown is set only with m_sockets empty; the reactor's loop is
\* broken only after the flag is set and the cleanup thread has ended; the base
\* is freed only after the loop is broken and both threads have ended.
C12_ShutdownOrder ==
    /\ \A c \in destroyed : m_bev[c] = "null"
    /\ m_pendingShutdown => m_sockets = <<>>
    /\ loopBroken => (m_pendingShutdown /\ pc[Reaper] = "exited")
    /\ baseFreed =>
          (loopBroken /\ pc[Reaper] = "exited" /\ pc[Reactor] = "exited")

ReadReturns(t) ==
    /\ op[t] = "Read"
    /\ pc[t] = "OpBody"
    /\ pc'[t] = ret[t]
    /\ m_bev[cur[t]] = "valid"

\* C14. Read(buffer, n) on a LIVE socket: with at least n bytes in the input
\* buffer it returns true, has copied bytes 1..n of the buffer, in order, and
\* has removed exactly those from the head of the buffer; with fewer it returns
\* false and the input buffer is as it was.  Either way the output buffer and
\* m_bev are as they were and the socket is still in m_sockets.
C14_ReadExact ==
    [][\A t \in Threads : ReadReturns(t) =>
          LET c == cur[t]
              n == arg[t]
              len == Len(inbuf[c])
          IN  /\ IF len >= n
                   THEN /\ res'[t].b
                        /\ res'[t].d = [i \in 1..n |-> inbuf[c][i]]
                        /\ inbuf'[c] = [i \in 1..(len - n) |-> inbuf[c][i + n]]
                   ELSE /\ ~res'[t].b
                        /\ inbuf'[c] = inbuf[c]
              /\ outbuf' = outbuf
              /\ m_bev' = m_bev
              /\ m_sockets' = m_sockets]_vars

\* C14 witness: Read(buffer, 2) has returned true with two different bytes, in
\* the order they had in the buffer, and a byte is left in the buffer.
C14_Witness ==
    \E t \in Apps :
        /\ pc[t] = "AppRet" /\ op[t] = "Read" /\ arg[t] = 2
        /\ res[t].b
        /\ res[t].d = <<"a", "b">>
        /\ inbuf[cur[t]] = <<"a">>

\* C17: when ProcessIncomingData() has returned false with errno == EBADMSG, the
\* read callback's next step is its return, and that step changes nothing of
\* the socket or of the worker: m_bev, the callbacks, both buffers and both
\* lists are as they were.  ProcessIncomingData() is entered only from the loop
\* test, on a ReadLengthRemaining() that returned more than 0; the loop test is
\* reached again only after a call that returned true; a call that returned
\* false is followed by the callback's return.
C17_BadMessageLeavesOpen ==
    [][ /\ (pc[Reactor] = "RCBadMsg" /\ pc'[Reactor] # "RCBadMsg") =>
              /\ pc'[Reactor] = "CbRet"
              /\ UNCHANGED <<sockVars, workerVars>>
        /\ (pc'[Reactor] = "PID" /\ pc[Reactor] # "PID") =>
              /\ pc[Reactor] = "RCLen"
              /\ res[Reactor].n > 0
        /\ (pc'[Reactor] = "RCLoop" /\ pc[Reactor] # "RCLoop") =>
              \/ pc[Reactor] = "RCbStatic"
              \/ pc[Reactor] = "PIDRet" /\ res[Reactor].b
        /\ (pc[Reactor] = "PIDRet" /\ ~res[Reactor].b /\ pc'[Reactor] # "PIDRet") =>
              pc'[Reactor] = "CbRet"
        /\ (pc[Reactor] = "PID" /\ pc'[Reactor] # "PID") =>
              \/ pc'[Reactor] \in {"CbRet", "RCBadMsg"}
              \/ pc'[Reactor] = "OpFast" /\ ret'[Reactor] = "PIDRet"
              \/ pc'[Reactor] = "Close" /\ ret'[Reactor] = "CbRet"
      ]_vars

\* ProcessIncomingData() has reported EBADMSG on a LIVE socket of the live list
\* that still holds more than one unread byte.
C17_Witness ==
    /\ pc[Reactor] = "RCBadMsg"
    /\ m_bev[cur[Reactor]] = "valid"
    /\ Len(inbuf[cur[Reactor]]) > 1
    /\ InList(m_sockets, cur[Reactor])

\* Socket.cpp:139-149,160-162,173-177,188-191,202-212: the thread is in the
\* locked section of Read, ReadSkip, InPeek, ReadLengthRemaining or Write on c.
InLockedSection(t, c) ==
    /\ pc[t] = "OpBody"
    /\ cur[t] = c
    /\ op[t] \in ReadOps

\* Socket.cpp:63-71: the thread is between Close()'s second check and the end
\* of bufferevent_free on c: it nulls m_bev and frees the stream.
Detaching(t, c) ==
    /\ pc[t] \in {"CloseBevLock", "ClosePublish", "CloseUnlock", "CloseFree"}
    /\ cur[t] = c

\* C20. While a thread nulls m_bev and frees the stream, no thread is in the
\* locked section of Read, ReadSkip, InPeek, ReadLengthRemaining or Write on
\* that socket, and a thread in a locked section holds the lock it is under; a
\* freed stream is never the value of m_bev; the output buffer changes only by
\* a Write that appends its whole frame with m_bev valid and the stream not
\* freed, and a Write that finds m_bev null leaves it as it was; the input
\* buffer is taken from only by an operation that holds m_readLock, with m_bev
\* valid and the stream not freed.
C20_DetachExcludesBufferOps ==
    /\ [](\A c \in Conns :
            /\ \A t \in Threads, u \in Threads :
                  Detaching(t, c) => ~InLockedSection(u, c)
            /\ \A u \in Threads :
                  InLockedSection(u, c) =>
                      IF op[u] = "Write" THEN writeLock[c] = u ELSE readLock[c] = u
            /\ streamFreed[c] > 0 => m_bev[c] # "valid")
    /\ [][\A c \in Conns :
            /\ outbuf'[c] # outbuf[c] =>
                  \E u \in Threads :
                      /\ InLockedSection(u, c) /\ op[u] = "Write"
                      /\ pc'[u] # "OpBody"
                      /\ m_bev[c] = "valid" /\ streamFreed[c] = 0
                      /\ outbuf'[c] = outbuf[c] \o Frame(arg[u])
            /\ \A u \in Threads :
                  (InLockedSection(u, c) /\ pc'[u] # "OpBody" /\ m_bev[c] # "valid") =>
                      outbuf'[c] = outbuf[c] /\ inbuf'[c] = inbuf[c]
            /\ (Len(inbuf'[c]) < Len(inbuf[c])) =>
                  \E u \in Threads :
                      /\ InLockedSection(u, c) /\ op[u] \in {"Read", "ReadSkip"}
                      /\ readLock[c] = u
                      /\ m_bev[c] = "valid" /\ streamFreed[c] = 0
       ]_vars

\* A Write passed its unlocked check while the socket was LIVE and waits for
\* m_writeLock, which a Close() that has nulled m_bev and is about to free the
\* stream holds.
C20_Witness ==
    \E t \in Threads, u \in Threads :
        /\ t # u
        /\ pc[t] = "CloseFree"
        /\ pc[u] = "OpLock" /\ op[u] = "Write"
        /\ cur[u] = cur[t]
        /\ writeLock[cur[t]] = t

\* C16. The accept error callback changes nothing but the acceptor: the step
\* that stops the acceptor on an error leaves every socket, both lists, the
\* locks, m_pendingShutdown, the worker's loop and every other thread as they
\* were; once the acceptor has stopped no socket is created and the acceptor
\* does not run again; and with the acceptor stopped by an error the reactor
\* still delivers read and event callbacks to a socket whose callbacks are set.
C16_AcceptErrorOnlyStopsAcceptor ==
    /\ [][ /\ (pc[Acceptor] = "idle" /\ pc'[Acceptor] = "stopped" /\ pc'[Dtor] = pc[Dtor]) =>
                  /\ UNCHANGED <<sockVars, workerVars>>
                  /\ UNCHANGED <<ret, cur, op, arg, res, rIdx, rPass, events,
                                 assertFailed, crashed>>
                  /\ \A t \in Threads \ {Acceptor} : pc'[t] = pc[t]
           /\ pc[Acceptor] = "stopped" =>
                  /\ pc'[Acceptor] = "stopped"
                  /\ created' = created
                  /\ \A c \in Conns : m_bev[c] = "none" => m_bev'[c] = "none"
          ]_vars
    /\ []((pc[Acceptor] = "stopped" /\ pc[Dtor] = "DIdle" /\ ~crashed) =>
              \A c \in Conns :
                  (cbSet[c] /\ pc[Reactor] = "idle" /\ bevOwner[c] = NoThread) =>
                      /\ ENABLED Dispatch(c, "eof")
                      /\ (Len(inbuf[c]) < MaxBuf => ENABLED Dispatch(c, "read")))

\* After an accept error stopped the acceptor (the worker is not being
\* destroyed), the reactor is running the read callback of a LIVE socket of
\* the live list.
C16_Witness ==
    /\ pc[Acceptor] = "stopped"
    /\ pc[Dtor] = "DIdle"
    /\ pc[Reactor] = "RCLoop"
    /\ m_bev[cur[Reactor]] = "valid"
    /\ InList(m_sockets, cur[Reactor])
    /\ ~m_pendingShutdown /\ ~loopBroken

\* C15. A constructor given a bind address that inet_aton refuses does not
\* complete, and in no state of it is a cleanup thread, a service thread or the
\* acceptor thread running.
C15_InvalidBindSpawnsNoThread ==
    ~listener.bindOk =>
        /\ listener.pc # "done"
        /\ listener.cleanupThreads = 0
        /\ listener.serviceThreads = 0
        /\ ~listener.m_acceptorThread

\* C21. The assert(sock->m_bev == bev) at the start of the read callback and of
\* the event callback never fails: whenever the reactor is at the start of one
\* of them, the Socket it was delivered for has not been destroyed, its m_bev
\* holds the stream, and the stream has not been freed.
C21_CallbackCheckNeverFails ==
    /\ ~assertFailed
    /\ \A c \in Conns :
          CallbackUsesHandle(c) =>
              /\ c \notin destroyed
              /\ m_bev[c] = "valid"
              /\ streamFreed[c] = 0

====
